---------------------------- MODULE Spec2Model ----------------------------
(*************************************************************************)
(* A state-machine model of nikola/__main__.py: the command-line front   *)
(* end of the Nikola static-site generator.  One invocation of main() is *)
(* a sequential process whose position is pc; every block of main(), the *)
(* resolution done by DoitNikola.run, NikolaTaskLoader.load_tasks and    *)
(* Clean.clean_tasks is one action.                                      *)
(*                                                                       *)
(* Tokens are strings.  Python's prefix tests (arg[:7] == '--conf=',     *)
(* argname.startswith('import_'), and doit's "name=value" variables) are *)
(* modelled by membership in the token classes ConfTokens, ImportTokens  *)
(* and VarTokens.                                                        *)
(*************************************************************************)
EXTENDS Integers, Sequences, FiniteSets, TLC

\* ------------------------------------------------------------- bounds
MaxArgs == 3
MaxRuns == 2

\* ------------------------------------------------------------- tokens
ConfTokens   == {"--conf=a.py", "--conf=b.py"}
ImportTokens == {"import_wordpress"}
VarTokens    == {"x=1", "a=b=c"}
HelpSpellings    == {"--help", "-h"}
VersionSpellings == {"--version", "-V"}

\* arg[7:] of a --conf= token (line 84)
ConfPath(arg) == IF arg = "--conf=a.py" THEN "a.py" ELSE "b.py"

SeqsUpTo(S, n) == UNION {[1..k -> S] : k \in 0..n}

Contains(seq, x) == \E i \in 1..Len(seq) : seq[i] = x

ContainsAny(seq, S) == \E i \in 1..Len(seq) : seq[i] \in S

\* del args[index]
RemoveAt(seq, index) ==
    [i \in 1..(Len(seq) - 1) |-> IF i < index THEN seq[i] ELSE seq[i + 1]]

NotHelpSpelling(a) == a \notin HelpSpellings
NotVarToken(a)     == a \notin VarTokens
NotConfToken(a)    == a \notin ConfTokens

\* ------------------------------------------------------- interpreter
\* The module runs on Python 2 and on Python 3 (lines 54-57).  A bytes
\* literal such as b'build' equals the argv string 'build' on Python 2
\* and equals no str on Python 3.
BytesEq(py3flag, lit, s) == ~py3flag /\ lit = s

BytesIn(py3flag, lit, seq) == ~py3flag /\ Contains(seq, lit)

\* ------------------------------------------------ main(): lines 63-65
\* isatty: stderr is a terminal; nt: os.name == 'nt'
Colorful(isatty, nt) == isatty /\ ~nt

\* ------------------------------------------------ main(): lines 71-78
\* line 72: the strict notice is emitted
StrictNotice(py3flag, a) ==
    Len(a) > 0 /\ BytesEq(py3flag, "build", a[1]) /\ BytesIn(py3flag, "--strict", a)

\* line 75: `A and B and C or D` groups as (A and B and C) or D
QuietFlag(py3flag, a) ==
    \/ (Len(a) > 0 /\ BytesEq(py3flag, "build", a[1]) /\ BytesIn(py3flag, "-q", a))
    \/ BytesIn(py3flag, "--quiet", a)

\* ------------------------------------------------ main(): lines 81-87
\* index of the first --conf= token, 0 when there is none
FirstConf(a) ==
    IF \E i \in 1..Len(a) : a[i] \in ConfTokens
    THEN CHOOSE i \in 1..Len(a) :
            /\ a[i] \in ConfTokens
            /\ \A j \in 1..(i - 1) : a[j] \notin ConfTokens
    ELSE 0

\* the loop deletes the first --conf= token and breaks
StripConf(a) == IF FirstConf(a) = 0 THEN a ELSE RemoveAt(a, FirstConf(a))

ConfFilename(a) == IF FirstConf(a) = 0 THEN "conf.py" ELSE ConfPath(a[FirstConf(a)])

\* ----------------------------------------------- main(): lines 93-100
\* the test on argname: a first token that is not init, version or import_*
NameNeedsProject(argname) ==
    /\ argname \notin {"init", "version"}
    /\ argname \notin ImportTokens

\* `if argname and ...`: no first token, or an empty one, is falsy
NeedsConfigFile(a) == Len(a) > 0 /\ a[1] # "" /\ NameNeedsProject(a[1])

\* ---------------------------------------------- main(): lines 110-117
\* what the except branch does: "exit" = sys.exit(1), "warn", "silent"
ConfigFailure_OnlyWhenNeeded(exists, needs) ==
    IF ~needs THEN "silent" ELSE IF exists THEN "exit" ELSE "warn"

ConfigFailure(exists, needs) ==
    IF exists THEN "exit" ELSE IF needs THEN "warn" ELSE "silent"

\* utils.get_root_dir: a project root above the directory, or none
RootFound == BOOLEAN

\* `import freezegun` succeeds or raises ImportError
FreezegunAvailable == BOOLEAN

\* utils.req_missing: the missing capability is reported, nothing else
req_missing(l) == Append(l, "req_missing")

\* ---------------------------------------------- main(): line 121
InvariantRequested(py3flag, a) ==
    Len(a) > 0 /\ BytesEq(py3flag, "build", a[1]) /\ BytesIn(py3flag, "--invariant", a)

\* ---------------------------------------------- main(): lines 130-131
MarkerNeeded(cfg, pdir) == DOMAIN cfg # {} /\ pdir = "unmarked"

\* ---------------------------------------------- main(): lines 135-138
ReservedKeys == {"__colorful__", "__invariant__", "__quiet__",
                 "__configuration_filename__"}

InjectReserved(cfg, col, inv, q, fname) ==
    [k \in DOMAIN cfg \cup ReservedKeys |->
        IF k = "__colorful__" THEN col
        ELSE IF k = "__invariant__" THEN inv
        ELSE IF k = "__quiet__" THEN q
        ELSE IF k = "__configuration_filename__" THEN fname
        ELSE cfg[k]]

\* ------------------------------------------------- Nikola(**config)
\* The Site Model: configured when the mapping holds more than the
\* reserved keys, invariant as injected, _commands the plugin commands.
PluginSets == { {"version", "init", "import_wordpress"},
                {"version", "init", "import_wordpress", "clean"} }

NoSite == [built |-> FALSE, configured |-> FALSE, invariant |-> FALSE,
           commands |-> {}]

Nikola(cfg, plugins) ==
    [built |-> TRUE,
     configured |-> (DOMAIN cfg \ ReservedKeys) # {},
     invariant |-> cfg["__invariant__"],
     commands |-> plugins]

\* -------------------------------------- DoitNikola: lines 251, 259-265
\* The generic engine commands with Build, Clean and the renamed
\* DoitAuto.  Help replaces the engine's help.  A plugin command
\* registered under the same name replaces the earlier entry.
EngineNames == {"run", "build", "clean", "doit_auto", "list", "forget"}

get_commands(s) ==
    [n \in EngineNames \cup {"help"} \cup s.commands |->
        IF n \in s.commands THEN "plugin"
        ELSE IF n = "help" THEN "help"
        ELSE "engine"]

\* ------------------------------------------ DoitNikola.run: 269-292
\* DoitMain.process_args drops the "name=value" variables
process_args(cmd_args) == SelectSeq(cmd_args, NotVarToken)

\* utils.sys_decode decodes a byte string; the tokens compare equal
sys_decode(arg) == arg

Decoded(a) == [i \in 1..Len(a) |-> sys_decode(a[i])]

\* lines 272-274
EmptyRule(r) ==
    IF Len(r.args) = 0
    THEN [cmd_args |-> <<"help">>, args |-> <<"help">>]
    ELSE r

\* lines 276-288
HelpRule_DropsRest(r) ==
    IF ContainsAny(r.args, HelpSpellings)
    THEN [cmd_args |-> <<"help">>, args |-> <<"help">>]
    ELSE r

HelpRule(r) ==
    IF ContainsAny(r.args, HelpSpellings)
    THEN [cmd_args |-> SelectSeq(<<"help">> \o r.cmd_args, NotHelpSpelling),
          args     |-> SelectSeq(<<"help">> \o r.args, NotHelpSpelling)]
    ELSE r

\* lines 290-292
VersionRule_FirstOnly(r) ==
    IF Len(r.args) > 0 /\ r.args[1] \in VersionSpellings
    THEN [cmd_args |-> <<"version">>, args |-> <<"version">>]
    ELSE r

VersionRule(r) ==
    IF ContainsAny(r.args, VersionSpellings)
    THEN [cmd_args |-> <<"version">>, args |-> <<"version">>]
    ELSE r

\* the three rules are consecutive `if` statements
Resolve(cmd_args) ==
    VersionRule(HelpRule(EmptyRule(
        [cmd_args |-> cmd_args, args |-> Decoded(process_args(cmd_args))])))

\* line 293
UnknownCommand(name, sub_cmds) == name \notin DOMAIN sub_cmds

\* lines 296-297
IsDoitCommand(kind) == kind \notin {"plugin", "help"}

NeedsSite_Inverted(kind, s) == IsDoitCommand(kind) /\ s.configured

NeedsSite(kind, s) == IsDoitCommand(kind) /\ ~s.configured

\* lines 293-302: "unknown" and "not_configured" return 3, any other
\* outcome is the kind of command DoitMain.run executes
RunOutcome_DefaultRun(name, sub_cmds, s) ==
    IF UnknownCommand(name, sub_cmds)
    THEN (IF NeedsSite("engine", s) THEN "not_configured" ELSE "engine")
    ELSE IF NeedsSite(sub_cmds[name], s) THEN "not_configured"
    ELSE sub_cmds[name]

RunOutcome(name, sub_cmds, s) ==
    IF UnknownCommand(name, sub_cmds) THEN "unknown"
    ELSE IF NeedsSite(sub_cmds[name], s) THEN "not_configured"
    ELSE sub_cmds[name]

\* ------------------------------------------------ Help: lines 146-167
\* The three forms the usage text names (165-167): `help` alone prints
\* the usage, `help <command>` the command's help, `help <task-name>`
\* the help of a task, for which the tasks are loaded.  The engine's
\* help prints the usage for more than two words as well, and keeps
\* the word "task" for the help on task attributes.
HelpOutcome(pos_args, sub_cmds) ==
    IF Len(pos_args) = 0 \/ Len(pos_args) > 2 THEN "usage"
    ELSE IF pos_args[1] = "task" THEN "task_attributes"
    ELSE IF pos_args[1] \in DOMAIN sub_cmds THEN "command_help"
    ELSE "task_help"

\* ---------------------------------------------- Clean: lines 210-211
Purges(dry, cfg) == ~dry /\ DOMAIN cfg # {}

CacheFolder_Default(cfg) == "cache"

CacheFolder(cfg) ==
    IF "CACHE_FOLDER" \in DOMAIN cfg THEN cfg["CACHE_FOLDER"] ELSE "cache"

\* -------------------------------------- NikolaTaskLoader: 228-238
\* what load_tasks does, in order: the two phases are assembled, then
\* the "initialized" signal is sent
TaskLoad == <<"load_tasks", "render_site", "post_render", "initialized">>

DoitConfig(q) ==
    IF q
    THEN [verbosity |-> "0", reporter |-> "zero", outfile |-> "default",
          default_tasks |-> <<"render_site", "post_render">>]
    ELSE [verbosity |-> "default", reporter |-> "ExecutedOnlyReporter",
          outfile |-> "stderr",
          default_tasks |-> <<"render_site", "post_render">>]


\* line 212
Exists(path, ds) == path \in ds

\* ----------------------------------------------------------- state
VARIABLES
    args0,              \* the argument list the process was started with
    py3,                \* the interpreter is Python 3
    tty,                \* stderr: [isatty, nt]
    freezegun,          \* `import freezegun` succeeds
    runs,               \* invocations started so far
    cleans,             \* completed calls of Clean.clean_tasks, over all runs
    conf,               \* the configuration file on disk, once it was read
    pluginsDir,         \* "absent", "unmarked" (no __init__.py) or "marked"
    dirs,               \* the cache directories that exist
    pc,                 \* position of the process
    args,               \* main's args list
    colorful,           \* main's colorful
    quiet,              \* main's quiet
    conf_filename,      \* main's conf_filename
    needs_config_file,  \* main's needs_config_file
    cwd,                \* working directory: "start" or "root"
    config,             \* the module-global config mapping
    invariant,          \* main's invariant
    frozen,             \* the process clock is frozen
    site,               \* the Nikola instance
    cmd_args,           \* run's cmd_args after the rewrite rules
    run_args,           \* run's args after the rewrite rules
    exitcode,           \* exit status, -1 while there is none
    DOIT_CONFIG,        \* what load_tasks returned, NoDoitConfig before
    dryrun,             \* the dryrun argument of the last clean_tasks
    dirsBefore,         \* dirs when the last clean_tasks was entered
    log                 \* what the process did, in order

env   == <<args0, py3, tty, freezegun, conf, pluginsDir, dirs>>
local == <<args, colorful, quiet, conf_filename, needs_config_file, cwd, config,
           invariant, frozen, site, cmd_args, run_args, exitcode,
           DOIT_CONFIG, dryrun, dirsBefore>>
vars  == <<runs, cleans, pc, log, env, local>>

EmptyConfig == [k \in {} |-> FALSE]

NoDoitConfig == [verbosity |-> "none", reporter |-> "none", outfile |-> "none",
                 default_tasks |-> <<>>]

CacheDirs == {"cache", "mycache"}

\* what conf.py sets CACHE_FOLDER to
CacheSettings == {"unset", "cache", "mycache"}

\* conf.__dict__ (line 109): the module's own attributes and its settings
ModuleDict(cache) ==
    [k \in {"__name__"} \cup (IF cache = "unset" THEN {} ELSE {"CACHE_FOLDER"}) |->
        IF k = "__name__" THEN "conf" ELSE cache]

Logged(e) == Contains(log, e)

\* position of the first occurrence of e in the log, 0 when there is none
At(e) ==
    IF Logged(e)
    THEN CHOOSE i \in 1..Len(log) :
            log[i] = e /\ \A j \in 1..(i - 1) : log[j] # e
    ELSE 0

\* the state of a process that has just started
Fresh ==
    /\ pc = "start"
    /\ args = args0
    /\ colorful = FALSE
    /\ quiet = FALSE
    /\ conf_filename = "conf.py"
    /\ needs_config_file = FALSE
    /\ cwd = "start"
    /\ config = EmptyConfig
    /\ invariant = FALSE
    /\ frozen = FALSE
    /\ site = NoSite
    /\ cmd_args = <<>>
    /\ run_args = <<>>
    /\ exitcode = -1
    /\ DOIT_CONFIG = NoDoitConfig
    /\ dryrun = FALSE
    /\ dirsBefore = dirs
    /\ log = <<>>

\* stderr is a terminal or a pipe on a POSIX system, a terminal on Windows
Terminals == { [isatty |-> TRUE,  nt |-> FALSE],
               [isatty |-> FALSE, nt |-> FALSE],
               [isatty |-> TRUE,  nt |-> TRUE] }

PosixTerminals == {t \in Terminals : ~t.nt}

InitWith(lists, ttys, fgs, pdirs, dsets) ==
    /\ args0 \in lists
    /\ py3 \in BOOLEAN
    /\ tty \in ttys
    /\ freezegun \in fgs
    /\ runs = 1
    /\ cleans = 0
    /\ conf = [status |-> "unread", cache |-> "unset"]
    /\ pluginsDir \in pdirs
    /\ dirs \in dsets
    /\ Fresh

\* ------------------------------------------------------ main(), 63-78
ParseFlags ==
    /\ pc = "start"
    /\ colorful' = Colorful(tty.isatty, tty.nt)
    /\ quiet' = QuietFlag(py3, args)
    /\ log' = IF StrictNotice(py3, args) THEN Append(log, "notice_strict") ELSE log
    /\ pc' = "conf"
    /\ UNCHANGED <<runs, cleans, env, args, conf_filename, needs_config_file,
                   cwd, config, invariant, frozen, site, cmd_args, run_args,
                   exitcode, DOIT_CONFIG, dryrun, dirsBefore>>

\* ------------------------------------------------------ main(), 81-87
ConsumeConf ==
    /\ pc = "conf"
    /\ conf_filename' = ConfFilename(args)
    /\ args' = StripConf(args)
    /\ pc' = "root"
    /\ UNCHANGED <<runs, cleans, env, log, colorful, quiet, needs_config_file, cwd,
                   config, invariant, frozen, site, cmd_args, run_args,
                   exitcode, DOIT_CONFIG, dryrun, dirsBefore>>

\* ----------------------------------------------------- main(), 93-100
FindRoot ==
    /\ pc = "root"
    /\ \E found \in (IF NeedsConfigFile(args) THEN RootFound ELSE {FALSE}) :
         /\ needs_config_file' = NeedsConfigFile(args)
         /\ cwd' = IF found THEN "root" ELSE cwd
         /\ log' = IF NeedsConfigFile(args)
                   THEN (IF found THEN log \o <<"get_root_dir", "chdir">>
                                  ELSE Append(log, "get_root_dir"))
                   ELSE log
    /\ pc' = "load"
    /\ UNCHANGED <<runs, cleans, env, args, colorful, quiet, conf_filename, config,
                   invariant, frozen, site, cmd_args, run_args, exitcode,
                   DOIT_CONFIG, dryrun, dirsBefore>>

\* ---------------------------------------------------- main(), 102-117
ConfOutcomes == {"ok", "raises", "leaves", "interrupted", "absent"}

\* the status a conf.py that raises SystemExit ends the process with:
\* sys.exit(0), sys.exit(1) or sys.exit('bye'), sys.exit(7)
ConfExitCodes == {0, 1, 7}

\* the status of a process that an uncaught KeyboardInterrupt ends:
\* Python 2 and Python 3 before 3.8 print the traceback and exit 1, a
\* later Python 3 dies of SIGINT (-2); line 54 accepts every Python 3
InterruptStatus(p3) == IF p3 THEN {1, -2} ELSE {1}

\* The file is executed: it runs through ("ok"), it exists and raises
\* an Exception ("raises"), it exists and raises SystemExit ("leaves")
\* or KeyboardInterrupt ("interrupted"), which `except Exception` lets
\* through, or there is no such file ("absent").  A later invocation
\* finds the file as the earlier one did.
LoadConfig ==
    /\ pc = "load"
    /\ \E st \in ConfOutcomes, cache \in CacheSettings,
          code \in ConfExitCodes \cup InterruptStatus(py3) :
         /\ st # "ok" => cache = "unset"
         /\ st = "leaves" => code \in ConfExitCodes
         /\ st = "interrupted" => code \in InterruptStatus(py3)
         /\ st \notin {"leaves", "interrupted"} => code = 0
         /\ conf.status # "unread" => conf = [status |-> st, cache |-> cache]
         /\ conf' = [status |-> st, cache |-> cache]
         /\ IF st = "ok"
            THEN /\ config' = ModuleDict(cache)
                 /\ log' = Append(log, "conf_loaded")
                 /\ pc' = "invariant"
                 /\ exitcode' = exitcode
            ELSE IF st \in {"leaves", "interrupted"}
            THEN /\ config' = config
                 /\ log' = Append(log, "conf_left")
                 /\ pc' = "aborted"
                 /\ exitcode' = code
            ELSE LET f == ConfigFailure(st = "raises", needs_config_file) IN
                 /\ config' = EmptyConfig
                 /\ log' = IF f = "exit" THEN Append(log, "conf_error")
                           ELSE IF f = "warn" THEN Append(log, "conf_missing_warning")
                           ELSE log
                 /\ pc' = IF f = "exit" THEN "exit" ELSE "invariant"
                 /\ exitcode' = IF f = "exit" THEN 1 ELSE exitcode
    /\ UNCHANGED <<runs, cleans, args0, py3, tty, freezegun, pluginsDir, dirs, args, colorful, quiet,
                   conf_filename, needs_config_file, cwd, invariant, frozen,
                   site, cmd_args, run_args, DOIT_CONFIG, dryrun, dirsBefore>>

\* ---------------------------------------------------- main(), 119-128
FreezeClock ==
    /\ pc = "invariant"
    /\ invariant' = (InvariantRequested(py3, args) /\ freezegun)
    /\ frozen' = (InvariantRequested(py3, args) /\ freezegun)
    /\ log' = IF ~InvariantRequested(py3, args) THEN log
              ELSE IF freezegun THEN Append(log, "freeze")
              ELSE req_missing(log)
    /\ pc' = "site"
    /\ UNCHANGED <<runs, cleans, env, args, colorful, quiet, conf_filename,
                   needs_config_file, cwd, config, site, cmd_args, run_args,
                   exitcode, DOIT_CONFIG, dryrun, dirsBefore>>

\* ---------------------------------------------------- main(), 130-140
BuildSite ==
    /\ pc = "site"
    /\ pluginsDir' = IF MarkerNeeded(config, pluginsDir) THEN "marked" ELSE pluginsDir
    /\ config' = InjectReserved(config, colorful, invariant, quiet, conf_filename)
    /\ \E plugins \in PluginSets : site' = Nikola(config', plugins)
    /\ log' = IF MarkerNeeded(config, pluginsDir)
              THEN log \o <<"marker_created", "site">>
              ELSE Append(log, "site")
    /\ pc' = "run"
    /\ UNCHANGED <<runs, cleans, args0, py3, tty, freezegun, conf, dirs, args, colorful, quiet,
                   conf_filename, needs_config_file, cwd, invariant, frozen,
                   cmd_args, run_args, exitcode, DOIT_CONFIG, dryrun,
                   dirsBefore>>

\* ------------------------------------- DoitNikola.run, 267-302
\* Resolution and the two gates; a command that passes them is handed to
\* DoitMain.run, which executes the registry's entry for it.
Run ==
    /\ pc = "run"
    /\ LET r        == Resolve(args)
           sub_cmds == get_commands(site)
           name     == r.args[1]
           out      == RunOutcome(name, sub_cmds, site)
       IN  /\ cmd_args' = r.cmd_args
           /\ run_args' = r.args
           /\ IF out = "unknown"
              THEN /\ log' = log \o <<"run", "unknown_command">>
                   /\ exitcode' = 3
                   /\ pc' = "return"
              ELSE IF out = "not_configured"
              THEN /\ log' = log \o <<"run", "not_configured">>
                   /\ exitcode' = 3
                   /\ pc' = "return"
              ELSE /\ log' = log \o <<"run", "dispatch">>
                   /\ exitcode' = exitcode
                   /\ pc' = out
    /\ UNCHANGED <<runs, cleans, env, args, colorful, quiet, conf_filename,
                   needs_config_file, cwd, config, invariant, frozen, site,
                   DOIT_CONFIG, dryrun, dirsBefore>>

\* ------------------------------------------------- Help, 148-167
\* DoitMain.run(cmd_args) drops the variables again and hands the words
\* after "help" to the command.  The help of a task loads the tasks
\* first, whether or not the site is configured.
ExecHelp ==
    /\ pc = "help"
    /\ LET pos_args == Tail(process_args(cmd_args))
           out      == HelpOutcome(pos_args, get_commands(site))
       IN  IF out = "task_help"
           THEN /\ DOIT_CONFIG' = DoitConfig(quiet)
                /\ log' = log \o TaskLoad \o <<"task_help">>
           ELSE /\ DOIT_CONFIG' = DOIT_CONFIG
                /\ log' = Append(log, out)
    /\ exitcode' = 0
    /\ pc' = "return"
    /\ UNCHANGED <<runs, cleans, env, args, colorful, quiet, conf_filename,
                   needs_config_file, cwd, config, invariant, frozen, site,
                   cmd_args, run_args, dryrun, dirsBefore>>

\* A plugin Command runs: it returns a status, or it leaves the process
\* (sys.exit) and main's last lines are not reached.
ExecPlugin ==
    /\ pc = "plugin"
    /\ \E leaves \in BOOLEAN, code \in {0, 1} :
         /\ leaves => code = 1
         /\ log' = Append(log, "plugin")
         /\ exitcode' = code
         /\ pc' = IF leaves THEN "aborted" ELSE "return"
    /\ UNCHANGED <<runs, cleans, env, args, colorful, quiet, conf_filename,
                   needs_config_file, cwd, config, invariant, frozen, site,
                   cmd_args, run_args, DOIT_CONFIG, dryrun, dirsBefore>>

\* ---------------------------- NikolaTaskLoader.load_tasks, 227-246
\* site.doit.task_loader.quiet is main's quiet (lines 141, 257)
LoadTasks ==
    /\ pc = "engine"
    /\ DOIT_CONFIG' = DoitConfig(quiet)
    /\ log' = log \o TaskLoad
    /\ pc' = IF run_args[1] = "clean" THEN "clean" ELSE "execute"
    /\ UNCHANGED <<runs, cleans, env, args, colorful, quiet, conf_filename,
                   needs_config_file, cwd, config, invariant, frozen, site,
                   cmd_args, run_args, exitcode, dryrun, dirsBefore>>

\* the commands that hand the work graph to the Task Engine
RunLike == {"run", "build", "doit_auto"}

ExecEngine ==
    /\ pc = "execute"
    /\ \E code \in {0, 1} :
         /\ exitcode' = code
         /\ log' = IF run_args[1] \in RunLike THEN Append(log, "task_engine")
                   ELSE Append(log, "engine_command")
    /\ pc' = "return"
    /\ UNCHANGED <<runs, cleans, env, args, colorful, quiet, conf_filename,
                   needs_config_file, cwd, config, invariant, frozen, site,
                   cmd_args, run_args, DOIT_CONFIG, dryrun, dirsBefore>>

\* ------------------------------------- Clean.clean_tasks, 209-214
\* shutil.rmtree of a path that does not exist raises; DoitMain.run
\* turns the exception into exit status 3 and the generic clean is
\* not reached.
CleanTasks ==
    /\ pc = "clean"
    /\ \E d \in BOOLEAN :
         LET folder == CacheFolder(config)
             purge  == Purges(d, config) /\ Exists(folder, dirs)
             raised == purge /\ folder \notin dirs
         IN  /\ dryrun' = d
             /\ dirsBefore' = dirs
             /\ dirs' = IF purge THEN dirs \ {folder} ELSE dirs
             /\ log' = IF raised THEN log \o <<"clean_tasks", "rmtree_error">>
                       ELSE IF purge
                       THEN log \o <<"clean_tasks", "rmtree", "generic_clean">>
                       ELSE log \o <<"clean_tasks", "generic_clean">>
             /\ cleans' = IF raised THEN cleans ELSE cleans + 1
             /\ exitcode' = IF raised THEN 3 ELSE 0
    /\ pc' = "return"
    /\ UNCHANGED <<runs, args0, py3, tty, freezegun, conf, pluginsDir, args, colorful, quiet,
                   conf_filename, needs_config_file, cwd, config, invariant,
                   frozen, site, cmd_args, run_args, DOIT_CONFIG>>

\* ---------------------------------------------------- main(), 143-145
Unfreeze ==
    /\ pc = "return"
    /\ frozen' = IF site.invariant THEN FALSE ELSE frozen
    /\ log' = IF site.invariant THEN Append(log, "unfreeze") ELSE log
    /\ pc' = "done"
    /\ UNCHANGED <<runs, cleans, env, args, colorful, quiet, conf_filename,
                   needs_config_file, cwd, config, invariant, site, cmd_args,
                   run_args, exitcode, DOIT_CONFIG, dryrun, dirsBefore>>

\* -------------------------------------------------- line 308-309
\* The same command line is run again in the directories the earlier
\* process left behind.
Reinvoke ==
    /\ pc \in {"done", "exit", "aborted"}
    /\ runs < MaxRuns
    /\ runs' = runs + 1
    /\ pc' = "start"
    /\ args' = args0
    /\ colorful' = FALSE
    /\ quiet' = FALSE
    /\ conf_filename' = "conf.py"
    /\ needs_config_file' = FALSE
    /\ cwd' = "start"
    /\ config' = EmptyConfig
    /\ invariant' = FALSE
    /\ frozen' = FALSE
    /\ site' = NoSite
    /\ cmd_args' = <<>>
    /\ run_args' = <<>>
    /\ exitcode' = -1
    /\ DOIT_CONFIG' = NoDoitConfig
    /\ dryrun' = FALSE
    /\ dirsBefore' = dirs
    /\ log' = <<>>
    /\ UNCHANGED <<cleans, env>>

Next ==
    \/ ParseFlags
    \/ ConsumeConf
    \/ FindRoot
    \/ LoadConfig
    \/ FreezeClock
    \/ BuildSite
    \/ Run
    \/ ExecHelp
    \/ ExecPlugin
    \/ LoadTasks
    \/ ExecEngine
    \/ CleanTasks
    \/ Unfreeze

NextAgain == Next \/ Reinvoke

\* ------------------------------------------------- specifications
\* commands, gating and unknown names
MainTokens == {"build", "clean", "init", "version", "bogus", "-V", "--help"}

Init == InitWith(SeqsUpTo(MainTokens, MaxArgs), Terminals, {FALSE},
                 {"unmarked", "marked"}, {CacheDirs})

Spec == Init /\ [][Next]_vars

\* flags parsed from the command line, and the deterministic clock
FlagTokens == {"build", "clean", "--strict", "-q", "--quiet", "--invariant",
               "--conf=a.py"}

InitFlags == InitWith(SeqsUpTo(FlagTokens, MaxArgs), Terminals,
                      FreezegunAvailable, {"unmarked"}, {CacheDirs})

SpecFlags == InitFlags /\ [][Next]_vars

\* the rewrite rules of DoitNikola.run
ResolveTokens == {"build", "clean", "bogus", "-h", "--help", "-V", "--version",
                  "x=1"}

InitResolve == InitWith(SeqsUpTo(ResolveTokens, MaxArgs), PosixTerminals,
                        {FALSE}, {"marked"}, {CacheDirs})

SpecResolve == InitResolve /\ [][Next]_vars

\* clean, run again on what the earlier run left
CleanTokens == {"clean", "build", "import_wordpress"}

InitClean == InitWith(SeqsUpTo(CleanTokens, MaxArgs), PosixTerminals,
                      {FALSE}, {"absent", "marked"}, SUBSET CacheDirs)

SpecClean == InitClean /\ [][NextAgain]_vars

\* ------------------------------------------------------- vocabulary
\* main has called DoitNikola.run and run has resolved the command
Resolved == Logged("run")

\* the registry's entry for the resolved command, "none" when it has none
ResolvedKind ==
    IF Resolved /\ run_args[1] \in DOMAIN get_commands(site)
    THEN get_commands(site)[run_args[1]]
    ELSE "none"

\* no command was executed, no work graph assembled, no engine invoked
NothingRan ==
    /\ ~Logged("dispatch")
    /\ ~Logged("load_tasks")
    /\ ~Logged("task_engine")

\* every name some registry holds
RegistryNames == EngineNames \cup {"help"} \cup UNION PluginSets

Finished == pc \in {"done", "exit", "aborted"}

\* the argument list without its --conf= tokens
WithoutConf(a) == SelectSeq(a, NotConfToken)

\* ------------------------------------------------------------- C1
\* C1: whenever run resolves an engine command (its registry entry is
\* neither a plugin Command nor help) and the site is not configured,
\* run returns 3 and nothing was dispatched: load_tasks was not called
\* and the Task Engine was not invoked.
C1_GateBeforeAssembly ==
    (Resolved /\ ResolvedKind = "engine" /\ ~site.configured)
        => /\ exitcode = 3
           /\ pc \in {"return", "done"}
           /\ Logged("not_configured")
           /\ NothingRan

\* build with no configuration file: the warning, then exit code 3
C1_Witness ==
    /\ pc = "done"
    /\ run_args = <<"build">>
    /\ Logged("conf_missing_warning")
    /\ DOMAIN config = ReservedKeys
    /\ exitcode = 3

\* ------------------------------------------------------------- C2
\* main has executed the configuration file
ConfRead == pc \notin {"start", "conf", "root", "load"}

\* C2 as claimed: once the configuration file was found to exist and to
\* raise, the process has exited with code 1 whatever the command: no
\* site was constructed, run was not called, nothing was dispatched or
\* assembled.
C2_AnyRaiseExitsOne ==
    (conf.status \in {"raises", "leaves", "interrupted"} /\ ConfRead)
        => /\ pc \in {"exit", "aborted"}
           /\ exitcode = 1
           /\ ~site.built
           /\ ~Resolved
           /\ NothingRan

\* C2 as amended: a configuration file that exists and raises an
\* Exception ends the process with the error report and exit code 1
\* whatever the command; one that raises SystemExit or KeyboardInterrupt
\* ends it with that exception and its status (1 among others; a
\* KeyboardInterrupt with 1 or, on Python 3, by SIGINT), without the
\* error report; in all cases no site was constructed, run was not
\* called, nothing was dispatched or assembled.
C2_ConfErrorExits ==
    /\ (conf.status = "raises" /\ ConfRead)
          => /\ pc = "exit"
             /\ exitcode = 1
             /\ Logged("conf_error")
    /\ (conf.status = "leaves" /\ ConfRead)
          => /\ pc = "aborted"
             /\ exitcode \in ConfExitCodes
             /\ ~Logged("conf_error")
    /\ (conf.status = "interrupted" /\ ConfRead)
          => /\ pc = "aborted"
             /\ exitcode \in InterruptStatus(py3)
             /\ ~Logged("conf_error")
    /\ (conf.status \in {"raises", "leaves", "interrupted"} /\ ConfRead)
          => /\ ~site.built
             /\ ~Resolved
             /\ NothingRan

\* a command that needs no project, a file that raises: exit 1 all the same
C2_Witness ==
    /\ pc = "exit"
    /\ conf.status = "raises"
    /\ Len(args0) > 0 /\ args0[1] = "init"
    /\ ~needs_config_file
    /\ exitcode = 1

\* ------------------------------------------------------------- C3
\* C3 as claimed: every finished invocation whose first token is no
\* registry name ended with exit code 3, the working directory and the
\* plugins marker as they were, and nothing assembled or run.
C3_FirstTokenUnknown ==
    (Finished /\ Len(args0) > 0 /\ args0[1] \notin RegistryNames)
        => /\ exitcode = 3
           /\ cwd = "start"
           /\ ~Logged("marker_created")
           /\ NothingRan

\* C3 as amended: whenever main reaches run and the first token of the
\* resolved argument list is no registry name, run returns 3 and nothing
\* was dispatched, assembled or handed to the Task Engine (main may have
\* changed directory and created the plugins marker before).
C3_ResolvedUnknown ==
    (Resolved /\ UnknownCommand(run_args[1], get_commands(site)))
        => /\ exitcode = 3
           /\ pc \in {"return", "done"}
           /\ Logged("unknown_command")
           /\ NothingRan

\* an unknown command in a configured project: exit 3 after main's effects
C3_Witness ==
    /\ pc = "done"
    /\ run_args[1] = "bogus"
    /\ site.configured
    /\ cwd = "root"
    /\ Logged("marker_created")
    /\ exitcode = 3

\* ------------------------------------------------------------- C4
\* C4 as claimed: whenever the list handed to run contains a help
\* spelling, run dispatches help followed by the list's other tokens in
\* their order, whatever else the list contains.
C4_HelpAnywhere ==
    (Resolved /\ ContainsAny(args, HelpSpellings))
        => /\ cmd_args = <<"help">> \o SelectSeq(args, NotHelpSpelling)
           /\ Logged("dispatch")

\* C4 as amended: with a help spelling and no version spelling in the
\* list, run dispatches help followed by the other tokens in their order,
\* whatever the first token is; with a version spelling as well, the
\* version rule runs after the help rule and the result is version alone.
C4_HelpUnlessVersion ==
    (Resolved /\ ContainsAny(args, HelpSpellings))
        => /\ Logged("dispatch")
           /\ IF ContainsAny(args, VersionSpellings)
              THEN cmd_args = <<"version">>
              ELSE /\ cmd_args = <<"help">> \o SelectSeq(args, NotHelpSpelling)
                   /\ run_args[1] = "help"
                   /\ ResolvedKind = "help"

\* a help spelling after the command and a variable: help x=1 build
C4_Witness ==
    /\ Resolved
    /\ args = <<"x=1", "build", "--help">>
    /\ cmd_args = <<"help", "x=1", "build">>
    /\ pc = "help"

\* ------------------------------------------------------------- C5
\* C5: whenever the list handed to run contains a version spelling, at
\* any position, run dispatches the one-token list version.
C5_VersionAnywhere ==
    (Resolved /\ ContainsAny(args, VersionSpellings))
        => /\ cmd_args = <<"version">>
           /\ run_args = <<"version">>
           /\ Logged("dispatch")
           /\ ResolvedKind = "plugin"

\* a version spelling last, after a command and a help spelling
C5_Witness ==
    /\ Resolved
    /\ args = <<"build", "-h", "-V">>
    /\ cmd_args = <<"version">>
    /\ pc = "plugin"

\* ------------------------------------------------------------- C6
\* the directory conf.py names as CACHE_FOLDER, cache when it names none
ConfiguredCache == IF conf.cache = "unset" THEN "cache" ELSE conf.cache

\* C6: after clean_tasks with a config present: a real clean leaves the
\* configured cache directory absent and every other directory as it
\* was, a dry run leaves all directories as they were, an absent
\* directory is no error, and the generic clean always ran, after the
\* purge when there was one.
C6_CachePurge ==
    (Logged("clean_tasks") /\ DOMAIN config # {})
        => /\ ~dryrun => (ConfiguredCache \notin dirs
                          /\ dirs = dirsBefore \ {ConfiguredCache})
           /\ dryrun => dirs = dirsBefore
           /\ Logged("rmtree") <=> (~dryrun /\ ConfiguredCache \in dirsBefore)
           /\ ~Logged("rmtree_error")
           /\ exitcode = 0
           /\ Logged("generic_clean")
           /\ Logged("rmtree") => At("rmtree") < At("generic_clean")

\* the second clean in a row, CACHE_FOLDER = "mycache": mycache was
\* already gone, cache is still there, and the clean succeeded
C6_Witness ==
    /\ runs = 2
    /\ cleans = 2
    /\ pc = "done"
    /\ ~dryrun
    /\ conf.cache = "mycache"
    /\ dirsBefore = {"cache"}
    /\ dirs = {"cache"}
    /\ exitcode = 0

\* ------------------------------------------------------------- C7
\* C7 as claimed: each thing main and run read from the argument list,
\* once read, is what the list without its --conf= tokens gives: the
\* strict notice and the quiet flag, the needs-project decision, the
\* invariant request and the resolved command; and once main has
\* consumed --conf=, its list holds no --conf= token.
C7_ConfStrippedFirst ==
    /\ pc # "start"
          => /\ Logged("notice_strict") = StrictNotice(py3, WithoutConf(args0))
             /\ quiet = QuietFlag(py3, WithoutConf(args0))
    /\ pc \notin {"start", "conf"} => ~ContainsAny(args, ConfTokens)
    /\ pc \notin {"start", "conf", "root"}
          => needs_config_file = NeedsConfigFile(WithoutConf(args0))
    /\ site.built
          => ((Logged("freeze") \/ Logged("req_missing"))
                 = InvariantRequested(py3, WithoutConf(args0)))
    /\ Resolved
          => [cmd_args |-> cmd_args, args |-> run_args] = Resolve(WithoutConf(args0))

\* ------------------------------------------------------------- C8
\* the command run resolves from main's argument list
ResolvedName == Resolve(args).args[1]

\* C8 as claimed: once main has decided, the search for the project root
\* was made exactly when the resolved command is not init, version or
\* import_*; otherwise the directory is unchanged; and a missing
\* configuration file was warned about exactly in the first case.
C8_ResolvedCommandDecides ==
    pc \notin {"start", "conf", "root"}
        => /\ needs_config_file = NameNeedsProject(ResolvedName)
           /\ Logged("get_root_dir") = NameNeedsProject(ResolvedName)
           /\ ~NameNeedsProject(ResolvedName) => cwd = "start"
           /\ (conf.status = "absent" /\ pc # "load")
                 => (Logged("conf_missing_warning") = NameNeedsProject(ResolvedName))

\* ------------------------------------------------------------- C9
\* what the claim calls an invariant build: the first token is build
\* and --invariant is among the arguments
InvariantBuild ==
    Len(args) > 0 /\ args[1] = "build" /\ Contains(args, "--invariant")

\* main is past lines 119-128
PastFreeze ==
    \/ pc \in {"site", "run", "help", "plugin", "engine", "clean", "execute",
               "return", "done"}
    \/ pc = "aborted" /\ Logged("run")

\* C9 as claimed: the clock is frozen only for an invariant build when
\* freezegun can be imported; an invariant build that cannot import it
\* has reported that, its invariant flag is false (also as injected)
\* and it goes on to run the command; the restore is attempted only
\* after a freeze; and a run that froze the clock and came back from
\* run has restored it when main returns.
C9_ClockFrozenAndRestored ==
    /\ frozen => Logged("freeze")
    /\ Logged("freeze") => (InvariantBuild /\ freezegun)
    /\ (PastFreeze /\ InvariantBuild /\ ~freezegun)
          => /\ Logged("req_missing")
             /\ ~Logged("freeze")
             /\ ~invariant
             /\ site.built => ~config["__invariant__"]
             /\ pc = "done" => (Logged("task_engine") \/ Logged("not_configured"))
    /\ Logged("req_missing") => (InvariantBuild /\ ~freezegun)
    /\ Logged("unfreeze")
          => (Logged("freeze") /\ At("freeze") < At("unfreeze"))
    /\ (pc = "done" /\ Logged("freeze")) => (Logged("unfreeze") /\ ~frozen)

\* ------------------------------------------------------------ C10
\* what the claim expects: a build with -q or --quiet
QuietBuild ==
    LET a == WithoutConf(args0)
    IN  Len(a) > 0 /\ a[1] = "build" /\ (Contains(a, "-q") \/ Contains(a, "--quiet"))

\* C10 as claimed: the quiet flag, as computed, as injected and as seen
\* by load_tasks, is true exactly for a build with -q or --quiet; then
\* load_tasks yields verbosity 0 and the zero reporter, otherwise the
\* executed-only reporter on stderr; the default tasks are both phases.
C10_QuietExactlyForQuietBuilds ==
    pc # "start"
        => /\ quiet = QuietBuild
           /\ site.built => (config["__quiet__"] = QuietBuild)
           /\ Logged("load_tasks")
                 => /\ DOIT_CONFIG.default_tasks = <<"render_site", "post_render">>
                    /\ IF QuietBuild
                       THEN /\ DOIT_CONFIG.verbosity = "0"
                            /\ DOIT_CONFIG.reporter = "zero"
                       ELSE /\ DOIT_CONFIG.reporter = "ExecutedOnlyReporter"
                            /\ DOIT_CONFIG.outfile = "stderr"

=============================================================================
